---------------------------- MODULE Spec2Model ----------------------------
(***************************************************************************)
(* The column-generation control loop of vrpy's VehicleRoutingProblem      *)
(* (src/vrpy/main.py): solve, _column_generation, _find_columns, the       *)
(* pricing-strategy dispatch and the time budget.  The LP/MIP solver and   *)
(* the pricing engine are external: their answers are drawn from small     *)
(* sets.  Times are whole clock units; the sweep parameters 0.3 .. 0.9 are *)
(* written in tenths.                                                      *)
(***************************************************************************)
EXTENDS Integers, Sequences, FiniteSets, TLC

VARIABLES
    pc,                 \* position inside solve / _column_generation / _find_columns
    solves,             \* number of solve calls made on the object
    nodes,              \* len(self.G.nodes())
    G,                  \* self.G: the nodes, and the cost list (one cost per vehicle type) of every edge
    H,                  \* self._H: the copy of the graph kept by _update_dummy_attributes
    fixed_cost,         \* self.fixed_cost: None, or one cost per vehicle type
    preassignments,     \* self._preassignments: a list of routes, each a list of nodes
    vehicle_types,      \* self._vehicle_types
    more_routes,        \* self._more_routes (None counts as false)
    iteration,          \* self._iteration
    no_improvement,     \* self._no_improvement
    lower_bound,        \* self._lower_bound
    do_exact,           \* self.do_exact
    dive,               \* self._dive
    dive_arg,           \* the dive argument of the running solve call
    pricing_strategy,   \* self._pricing_strategy
    time_limit,         \* self._time_limit
    max_iter,           \* self._max_iter
    elapsed,            \* time() - self._start_time
    produced_column,    \* self.produced_column (None counts as false)
    hyper_heuristic,    \* self.hyper_heuristic
    relaxed_cost,       \* _find_columns: relaxed_cost of the running iteration
    strategy,           \* _find_columns: dynamic_pricing_strategy of the running iteration
    vehicle,            \* _find_columns: index of the vehicle loop
    calls,              \* pricing calls (subproblem.solve) made for the vehicle type priced last
    entry_no_improvement, \* self._no_improvement as it was when _find_columns was entered
    forced_exact,       \* _find_columns: the branch that forces Exact was taken in the running iteration
    pass_iterations,    \* _find_columns calls made by the running _column_generation call
    exit_taken,         \* the way the last pass left the while loop of _column_generation
    best_value,         \* self._best_value
    time_result,        \* value returned by the last recorded _get_time_remaining call
    columns,            \* len(self.masterproblem.y): the route-selection variables of the master
    master_call,        \* _find_columns: the master solve of the running iteration (routine, status, ordinal)
    duals,              \* _find_columns: duals of the running iteration, named by the master solve they come from
    priced,             \* _find_columns: per vehicle type priced so far, the arguments of its pricing
    passes,             \* _column_generation calls made by the running solve call
    mip_solves,         \* masterproblem.solve(relax=False) calls made by the running solve call
    extraction,         \* the relax argument of get_total_cost_and_routes in the running solve call
    raised,             \* the exception that ended the solve call, if any
    knapsack,           \* the running knapsack(weights, capacity) call
    pool,               \* the routes behind the route-selection variables of the master
    new_column,         \* _find_columns: the column handed to masterproblem.update for the vehicle type priced last
    driven,             \* _find_columns: the hyper-heuristic methods called in the running iteration
    selection,          \* the running get_total_cost_and_routes(relax) or get_heuristic_distribution() call
    conversion,         \* an initial route on its way to a digraph and back to a node list
    update,             \* _find_columns: update, the value returned by move_acceptance
    best_routes         \* self._best_routes: the routes merged from the preassignments

vars == << pc, solves, nodes, preassignments, vehicle_types, more_routes, iteration,
           no_improvement, lower_bound, do_exact, dive, dive_arg, pricing_strategy,
           time_limit, max_iter, elapsed, produced_column, hyper_heuristic,
           relaxed_cost, strategy, vehicle, calls, entry_no_improvement, forced_exact,
           pass_iterations, exit_taken, best_value, time_result, columns, master_call,
           duals, priced, passes, mip_solves, extraction, raised, knapsack, pool,
           new_column, driven, selection, conversion, update, best_routes, G, H,
           fixed_cost >>

\* Groups of variables, for the frame conditions.
graph == << nodes, G, H, fixed_cost, preassignments, vehicle_types >>
arguments == << pricing_strategy, time_limit, max_iter, dive_arg >>
locals == << relaxed_cost, strategy, vehicle, forced_exact, driven, update >>
master_locals == << master_call, duals, priced, new_column >>
outcome == << mip_solves, extraction, raised, best_routes >>
apart == << knapsack, selection, conversion >>

(***************************************************************************)
(* Bounds of the model.                                                    *)
(***************************************************************************)
MaxIteration == 3       \* _find_columns calls per object in Spec
MaxLongRun == 1003      \* _find_columns calls per object in SpecLong
WarmUp == 2             \* SpecLong: iterations during which the relaxed objective may still move
MaxSolves == 2          \* solve calls per object in SpecAgain
MaxClock == 1           \* largest elapsed time in Spec and SpecLong
MaxVehicleTypes == 2
MaxIterArg == 2         \* largest max_iter argument
MaxCost == 2            \* relaxed objective values are 1 .. MaxCost
MaxTimeLimit == 7       \* SpecTime: largest time limit
MaxElapsed == 9         \* SpecTime: largest clock value
InitialRoutes == 2      \* columns of the master built by _initialize: one round trip per customer
MaxRouteCost == 2       \* route costs are 1 .. MaxRouteCost; a round trip costs MaxRouteCost
MaxItems == 3           \* SpecKnapsack: longest list of weights
MaxWeight == 3          \* SpecKnapsack: largest weight
MaxCapacity == 4        \* SpecKnapsack: largest capacity
MaxPool == 2            \* SpecSelection: most routes in self.routes
MaxStops == 4           \* SpecRoutes: most nodes between Source and Sink in an initial route
MaxGraphSolves == 3     \* SpecGraph: solve calls per object
CarryIter == 32         \* SpecCarry: max_iter of the first solve call
MaxFixedCost == 2       \* SpecGraph: the fixed cost of vehicle type k is 1 + (k mod MaxFixedCost)

(***************************************************************************)
(* Program constants.                                                      *)
(***************************************************************************)
NoImprovementLimit == 1000
DoExactDefault == 1000
DoExactRelative == 30
MipMinimum == 5

(***************************************************************************)
(* Python values: None, truthiness, max.                                   *)
(***************************************************************************)
None == << >>
Some(x) == << x >>
Val(o) == o[1]
Truthy(o) == o # None /\ Val(o) # 0
Max(a, b) == IF a >= b THEN a ELSE b
Last(s) == s[Len(s)]

NonExact == {"BestPaths", "BestEdges1", "BestEdges2"}
Strategies == NonExact \cup {"Exact"}
PricingStrategies == Strategies \cup {"Hyper"}
PerformanceMeasures == {"Relative improvement", "Weighted average"}
RelaxedCosts == 1 .. MaxCost
LpStatuses == {"Optimal", "Not Solved"}
\* The time a call takes.  Without a time limit nothing reads the clock, and
\* the model leaves it where it is.
Ticks(limit) == IF Truthy(limit) THEN {0, 1} ELSE {0}
Advance(t, d) == IF t + d <= MaxClock THEN t + d ELSE t

\* The parameter lists of the three non-exact sweeps, in the order tried.
SweepParameters(s) ==
    CASE s = "BestPaths" -> << 3, 5, 7, 9 >>
      [] s = "BestEdges1" -> << 3, 5, 7, 9 >>
      [] s = "BestEdges2" -> << 1, 2, 3 >>

(***************************************************************************)
(* _get_time_remaining, t being time() - _start_time.                         *)
(***************************************************************************)
\* Variant: the remaining time is returned as computed, also when it is not positive.
GetTimeRemainingUnclamped(limit, t, mip) ==
    IF Truthy(limit)
    THEN LET remaining_time == Val(limit) - t
         IN  IF mip THEN Some(Max(MipMinimum, remaining_time))
             ELSE Some(remaining_time)
    ELSE None

\* Variant: min in place of max for the MIP budget.
GetTimeRemainingMin(limit, t, mip) ==
    IF Truthy(limit)
    THEN LET remaining_time == Val(limit) - t
         IN  IF mip
             THEN Some(IF MipMinimum <= remaining_time THEN MipMinimum ELSE remaining_time)
             ELSE IF remaining_time > 0 THEN Some(remaining_time)
             ELSE Some(0)
    ELSE None

\* Variant: the limit is tested against None, so that 0 is a limit like another.
GetTimeRemainingIfSet(limit, t, mip) ==
    IF limit # None
    THEN LET remaining_time == Val(limit) - t
         IN  IF mip THEN Some(Max(MipMinimum, remaining_time))
             ELSE IF remaining_time > 0 THEN Some(remaining_time)
             ELSE Some(0)
    ELSE None

GetTimeRemaining(limit, t, mip) ==
    IF Truthy(limit)
    THEN LET remaining_time == Val(limit) - t
         IN  IF mip THEN Some(Max(MipMinimum, remaining_time))
             ELSE IF remaining_time > 0 THEN Some(remaining_time)
             ELSE Some(0)
    ELSE None

\* isinstance(x, float): every value the function returns for mip=False is a
\* float (the time limit minus a float, or 0.0) unless it is None.
IsFloat(x) == x # None

(***************************************************************************)
(* Pricing.  A result is what one _attempt_solve_* call leaves behind:     *)
(* the subproblem calls it made, self._more_routes and produced_column.    *)
(***************************************************************************)
Call(s, p, found) == [strategy |-> s, parameter |-> p, found |-> found]

\* Variant: a sweep without the break, calling the subproblem on every value.
SweepResultNoBreak(s, k) ==
    LET ps == SweepParameters(s)
    IN  [ calls |-> [i \in 1 .. Len(ps) |-> Call(s, Some(ps[i]), i = k)],
          more_routes |-> TRUE,
          produced_column |-> (k # 0) ]

\* Variant: a sweep without the else clause of its for loop, so that a sweep
\* that fails throughout leaves self._more_routes false.
SweepResultKeepsFlag(s, k) ==
    LET ps == SweepParameters(s)
        n  == IF k = 0 THEN Len(ps) ELSE k
    IN  [ calls |-> [i \in 1 .. n |-> Call(s, Some(ps[i]), i = k)],
          more_routes |-> (k # 0),
          produced_column |-> (k # 0) ]

\* A sweep that succeeds at its k-th parameter (k = 0: at none).
SweepResult(s, k) ==
    LET ps == SweepParameters(s)
        n  == IF k = 0 THEN Len(ps) ELSE k
    IN  [ calls |-> [i \in 1 .. n |-> Call(s, Some(ps[i]), i = k)],
          more_routes |-> TRUE,
          produced_column |-> (k # 0) ]

\* _attempt_solve_best_paths, _attempt_solve_BestEdges1, _attempt_solve_BestEdges2
AttemptSolveSweep(s) == { SweepResult(s, k) : k \in 0 .. Len(SweepParameters(s)) }

\* Variant: Exact leaves self._more_routes set whatever it found.
AttemptSolveExactKeepsFlag ==
    { [ calls |-> << Call("Exact", None, found) >>,
        more_routes |-> TRUE,
        produced_column |-> found ] : found \in BOOLEAN }

\* _attempt_solve_Exact
AttemptSolveExact ==
    { [ calls |-> << Call("Exact", None, found) >>,
        more_routes |-> found,
        produced_column |-> found ] : found \in BOOLEAN }

\* Nothing is called: the flag keeps the value False set before the call.
NoAttempt == [calls |-> << >>, more_routes |-> FALSE, produced_column |-> FALSE]

Then(r, e) ==
    [ calls |-> r.calls \o e.calls,
      more_routes |-> e.more_routes,
      produced_column |-> e.produced_column ]

\* Variant: the static branch calls Exact only when Exact is the strategy.
SolveSubproblemWithoutEscalation(configured, s) ==
    IF configured = "Hyper"
    THEN IF s \in NonExact THEN AttemptSolveSweep(s)
         ELSE IF s = "Exact" THEN AttemptSolveExact
         ELSE { NoAttempt }
    ELSE LET first == IF s \in NonExact THEN AttemptSolveSweep(s) ELSE { NoAttempt }
         IN  UNION { IF s = "Exact"
                     THEN { Then(r, e) : e \in AttemptSolveExact }
                     ELSE { r } : r \in first }

\* _solve_subproblem_with_heuristic(pricing_strategy = s) under self._pricing_strategy = configured
SolveSubproblemWithHeuristic(configured, s) ==
    IF configured = "Hyper"
    THEN IF s \in NonExact THEN AttemptSolveSweep(s)
         ELSE IF s = "Exact" THEN AttemptSolveExact
         ELSE { NoAttempt }
    ELSE LET first == IF s \in NonExact THEN AttemptSolveSweep(s) ELSE { NoAttempt }
         IN  UNION { IF s = "Exact" \/ ~r.produced_column
                     THEN { Then(r, e) : e \in AttemptSolveExact }
                     ELSE { r } : r \in first }

(***************************************************************************)
(* Routes.  The instance has two customers; a route is known by the        *)
(* customers it visits and by its cost.                                    *)
(***************************************************************************)
Customers == {1, 2}
Routes == { [cover |-> c, cost |-> k] : c \in (SUBSET Customers) \ {{}}, k \in 1 .. MaxRouteCost }

\* The initial routes: one round trip per customer.
InitialPool == { [cover |-> {c}, cost |-> MaxRouteCost] : c \in Customers }

\* Where the content of the routes is left aside, every priced route is this one.
AnyRoute == [cover |-> Customers, cost |-> MaxRouteCost]

(***************************************************************************)
(* The graph.  The instance has the customers a and b; every edge of the   *)
(* graph handed to the constructor costs 1 for every vehicle type, and     *)
(* there is no edge from Source to Sink.                                   *)
(***************************************************************************)
UserEdges ==
    { << "Source", "a" >>, << "Source", "b" >>, << "a", "b" >>, << "b", "a" >>,
      << "a", "Sink" >>, << "b", "Sink" >> }

NewGraph(types) ==
    [ nodes |-> {"Source", "Sink", "a", "b"},
      cost  |-> [e \in UserEdges |-> [k \in 1 .. types |-> 1]] ]

\* Variant: the fixed cost is added to the edges that leave Source for a customer only.
AddFixedCostsToCustomers(g, fixed, types) ==
    [g EXCEPT !.cost =
        [e \in DOMAIN g.cost |->
            IF e[1] = "Source" /\ e[2] # "Sink"
            THEN [k \in DOMAIN g.cost[e] |->
                     IF k <= types THEN g.cost[e][k] + fixed[k] ELSE g.cost[e][k]]
            ELSE g.cost[e]]]

\* _add_fixed_costs: on every edge that leaves Source, each vehicle type's
\* fixed cost is added to its cost.
AddFixedCosts(g, fixed, types) ==
    [g EXCEPT !.cost =
        [e \in DOMAIN g.cost |->
            IF e[1] = "Source"
            THEN [k \in DOMAIN g.cost[e] |->
                     IF k <= types THEN g.cost[e][k] + fixed[k] ELSE g.cost[e][k]]
            ELSE g.cost[e]]]

\* _update_dummy_attributes: the edge from Source to Sink is added, at cost 0,
\* if the graph has none.
UpdateDummyAttributes(g, types) ==
    IF << "Source", "Sink" >> \in DOMAIN g.cost THEN g
    ELSE [g EXCEPT !.cost =
             [e \in DOMAIN g.cost \cup {<< "Source", "Sink" >>} |->
                 IF e \in DOMAIN g.cost THEN g.cost[e] ELSE [k \in 1 .. types |-> 0]]]

\* G.remove_nodes_from(ns): the nodes go, with the edges at them; a node that
\* is not in the graph is passed over.
RemoveNodesFrom(g, ns) ==
    [ nodes |-> g.nodes \ ns,
      cost  |-> [e \in { d \in DOMAIN g.cost : d[1] \notin ns /\ d[2] \notin ns } |-> g.cost[e]] ]

\* route[0] == "Source" and route[-1] == "Sink"
Complete(route) == route[1] = "Source" /\ route[Len(route)] = "Sink"

\* route[1:-1]
Interior(route) == { route[j] : j \in 2 .. Len(route) - 1 }

\* list(zip(route[:-1], route[1:]))
RouteEdges(route) == { << route[j], route[j + 1] >> : j \in 1 .. Len(route) - 1 }

\* The cost of the edges es is set to 0 for every vehicle type.
ZeroCosts(g, es, types) ==
    [g EXCEPT !.cost =
        [e \in DOMAIN g.cost |->
            IF e \in es
            THEN [k \in DOMAIN g.cost[e] |-> IF k <= types THEN 0 ELSE g.cost[e][k]]
            ELSE g.cost[e]]]

\* The loop of _lock over the preassigned routes, from the i-th on.  The
\* interior of a complete route is removed; the edges of another route are
\* set to cost 0 one after the other, and one that is not in the graph raises
\* KeyError.
RECURSIVE LockFrom(_, _, _, _)
LockFrom(g, pre, i, types) ==
    IF i > Len(pre) THEN [graph |-> g, error |-> FALSE]
    ELSE LET route == pre[i]
         IN  IF Complete(route)
             THEN LockFrom(RemoveNodesFrom(g, Interior(route)), pre, i + 1, types)
             ELSE LET missing == { j \in 1 .. Len(route) - 1 :
                                      << route[j], route[j + 1] >> \notin DOMAIN g.cost }
                      reached == IF missing = {} THEN Len(route) - 1
                                 ELSE (CHOOSE j \in missing : \A m \in missing : j <= m) - 1
                      zeroed  == ZeroCosts(g, { << route[j], route[j + 1] >> : j \in 1 .. reached },
                                           types)
                  IN  IF missing = {} THEN LockFrom(zeroed, pre, i + 1, types)
                      ELSE [graph |-> zeroed, error |-> TRUE]

\* Variant: the flag is left as solve set it.
MoreRoutesAfterLockKept(flag, g) == flag

\* The end of _lock: if all vertices are locked, do not generate columns.
MoreRoutesAfterLock(flag, g) == IF Cardinality(g.nodes) = 2 THEN FALSE ELSE flag

\* The graph part of _pre_solve: the fixed costs, the dummy attributes with
\* the copy kept in self._H, the locking of the preassigned routes.
PreSolveGraph(g, fixed, pre, types) ==
    LET costed == IF fixed # None THEN AddFixedCosts(g, fixed, types) ELSE g
        whole  == UpdateDummyAttributes(costed, types)
        locked == IF pre # << >> THEN LockFrom(whole, pre, 1, types)
                  ELSE [graph |-> whole, error |-> FALSE]
    IN  [ graph |-> locked.graph, copy |-> whole, error |-> locked.error, locks |-> pre # << >> ]

\* The end of _best_routes_as_node_lists: the complete preassigned routes,
\* from the i-th on, are put among the best routes; the cost of each is read
\* from the edges of self._H, and an edge that is not there raises KeyError.
RECURSIVE MergeFrom(_, _, _)
MergeFrom(pre, i, h) ==
    IF i > Len(pre) THEN [routes |-> << >>, error |-> FALSE]
    ELSE IF ~Complete(pre[i]) THEN MergeFrom(pre, i + 1, h)
    ELSE IF RouteEdges(pre[i]) \subseteq DOMAIN h.cost
    THEN LET rest == MergeFrom(pre, i + 1, h)
         IN  [routes |-> << pre[i] >> \o rest.routes, error |-> rest.error]
    ELSE [routes |-> << pre[i] >>, error |-> TRUE]

(***************************************************************************)
(* Construction: VehicleRoutingProblem.__init__ and HyperHeuristic().      *)
(***************************************************************************)
NewHyperHeuristic(measure) ==
    [ initialisation |-> TRUE,
      performance_measure |-> measure,
      current_objective |-> None,
      timer_started |-> FALSE,
      observations |-> 0 ]

ConstructedWith(types, measure, fixed) ==
    /\ pc = "idle"
    /\ solves = 0
    /\ nodes = 4
    /\ G = NewGraph(types)
    /\ H = None
    /\ fixed_cost = fixed
    /\ update = None
    /\ best_routes = << >>
    /\ preassignments = << >>
    /\ vehicle_types = types
    /\ more_routes = FALSE
    /\ iteration = 0
    /\ no_improvement = 0
    /\ lower_bound = << >>
    /\ do_exact = DoExactDefault
    /\ dive = FALSE
    /\ dive_arg = FALSE
    /\ pricing_strategy = "None"
    /\ time_limit = None
    /\ max_iter = None
    /\ elapsed = 0
    /\ produced_column = FALSE
    /\ hyper_heuristic = NewHyperHeuristic(measure)
    /\ relaxed_cost = None
    /\ strategy = "None"
    /\ vehicle = 0
    /\ calls = << >>
    /\ entry_no_improvement = 0
    /\ forced_exact = FALSE
    /\ pass_iterations = 0
    /\ exit_taken = "none"
    /\ best_value = None
    /\ time_result = None
    /\ columns = 0
    /\ master_call = None
    /\ duals = None
    /\ priced = << >>
    /\ passes = 0
    /\ mip_solves = 0
    /\ extraction = "none"
    /\ raised = "none"
    /\ pool = {}
    /\ new_column = None
    /\ driven = << >>
    /\ selection = None
    /\ conversion = None
    /\ knapsack = None

Constructed(types, measure) == ConstructedWith(types, measure, None)

Init ==
    \E types \in 1 .. MaxVehicleTypes, measure \in PerformanceMeasures :
        Constructed(types, measure)

(***************************************************************************)
(* solve, up to the first call of _column_generation.                      *)
(***************************************************************************)
Solve(strategy_arg, limit_arg, iter_arg, d_arg, pre_arg, Most) ==
    /\ pc = "idle"
    /\ solves < Most
    /\ solves' = solves + 1
    /\ more_routes' = TRUE
    /\ pricing_strategy' = strategy_arg
    /\ time_limit' = limit_arg
    /\ dive' = FALSE
    /\ dive_arg' = d_arg
    /\ max_iter' = iter_arg
    /\ elapsed' = 0
    /\ preassignments' = IF pre_arg # << >> THEN pre_arg ELSE preassignments
    /\ exit_taken' = "none"
    /\ pass_iterations' = 0
    /\ pc' = "pre_solve"
    /\ UNCHANGED << nodes, G, H, fixed_cost, vehicle_types, iteration, no_improvement,
                    lower_bound, do_exact, produced_column, hyper_heuristic, locals, calls,
                    entry_no_improvement, best_value, time_result >>
    /\ passes' = 0
    /\ mip_solves' = 0
    /\ extraction' = "none"
    /\ UNCHANGED << columns, pool, master_locals, raised, best_routes, apart >>

\* _pre_solve and _initialize; _lock removes the interior nodes of the complete
\* preassigned routes and, when only Source and Sink are left, clears the flag.
PreSolve ==
    /\ pc = "pre_solve"
    /\ LET done == PreSolveGraph(G, fixed_cost, preassignments, vehicle_types)
       IN  /\ G' = done.graph
           /\ H' = Some(done.copy)
           /\ nodes' = Cardinality(done.graph.nodes)
           /\ IF done.error
              THEN \* self.G.edges[i, j] raises in _lock
                   /\ pc' = "error"
                   /\ raised' = "KeyError"
                   /\ UNCHANGED << more_routes, columns, pool, passes >>
              ELSE /\ more_routes' = IF done.locks
                                     THEN MoreRoutesAfterLock(more_routes, done.graph)
                                     ELSE more_routes
                   /\ pc' = "cg"
                   \* _initialize builds a new master over the initial routes
                   /\ columns' = InitialRoutes
                   /\ pool' = InitialPool
                   /\ passes' = 1
                   /\ UNCHANGED raised
    /\ UNCHANGED << solves, fixed_cost, preassignments, vehicle_types, iteration,
                    no_improvement, lower_bound, do_exact, dive, arguments, elapsed,
                    produced_column, hyper_heuristic, locals, calls, entry_no_improvement,
                    pass_iterations, exit_taken, best_value, time_result >>
    /\ UNCHANGED << master_locals, mip_solves, extraction, best_routes, apart >>

(***************************************************************************)
(* _column_generation: the while test that ends the loop.                  *)
(***************************************************************************)
\* Variant: a while loop that tests the iteration cap at its head as well.
WhileExitOnLimits ==
    /\ pc = "cg"
    /\ \/ ~more_routes
       \/ no_improvement > NoImprovementLimit
       \/ (Truthy(max_iter) /\ iteration >= Val(max_iter))
    /\ exit_taken' = IF ~more_routes THEN "more_routes" ELSE "limit"
    /\ pc' = "after"
    /\ UNCHANGED << solves, graph, more_routes, iteration, no_improvement, lower_bound,
                    do_exact, dive, arguments, elapsed, produced_column,
                    hyper_heuristic, locals, calls, entry_no_improvement,
                    pass_iterations, best_value, time_result, columns, pool, master_locals,
                    passes, outcome, apart >>

WhileExit ==
    /\ pc = "cg"
    /\ ~more_routes
    /\ exit_taken' = "more_routes"
    /\ pc' = "after"
    /\ UNCHANGED << solves, graph, more_routes, iteration, no_improvement, lower_bound,
                    do_exact, dive, arguments, elapsed, produced_column,
                    hyper_heuristic, locals, calls, entry_no_improvement,
                    pass_iterations, best_value, time_result, columns, pool, master_locals,
                    passes, outcome, apart >>

(***************************************************************************)
(* _find_columns, first part: the relaxed master solve and the choice of   *)
(* the pricing strategy of the iteration.                                  *)
(***************************************************************************)
\* The hyper-heuristic in steady state: current_performance, move_acceptance,
\* update_parameters, pick_heurestic.
HyperStep(h, cost) ==
    [h EXCEPT !.observations = @ + 1, !.current_objective = Some(cost)]

\* Variant: the initialisation that leaves the flag set.
HyperInitialiseKeepsFlag(h, cost) ==
    [h EXCEPT !.current_objective = Some(cost),
              !.timer_started = TRUE]

\* The hyper-heuristic's initialisation in _find_columns.
HyperInitialise(h, cost) ==
    [h EXCEPT !.current_objective = Some(cost),
              !.timer_started = TRUE,
              !.initialisation = FALSE]

\* The methods of the hyper-heuristic called by the initialisation branch.
InitialCalls(cost) ==
    << [method |-> "set_current_objective", objective |-> Some(cost), produced_column |-> None],
       [method |-> "set_initial_time", objective |-> None, produced_column |-> None] >>

\* Variant: the strategy is picked before the performance is recorded.
SteadyCallsPickFirst(cost, produced) ==
    << [method |-> "pick_heurestic", objective |-> None, produced_column |-> None],
       [method |-> "current_performance", objective |-> Some(cost),
        produced_column |-> Some(produced)],
       [method |-> "move_acceptance", objective |-> None, produced_column |-> None],
       [method |-> "update_parameters", objective |-> None, produced_column |-> None] >>

\* The methods called by the steady-state branch, produced being
\* self.produced_column as the last pricing left it.
SteadyCalls(cost, produced) ==
    << [method |-> "current_performance", objective |-> Some(cost),
        produced_column |-> Some(produced)],
       [method |-> "move_acceptance", objective |-> None, produced_column |-> None],
       [method |-> "update_parameters", objective |-> None, produced_column |-> None],
       [method |-> "pick_heurestic", objective |-> None, produced_column |-> None] >>

\* Variant: do_exact is lowered whatever the performance measure.
InitialDoExactAlways(h, current) == DoExactRelative

\* do_exact after the initialisation branch.
InitialDoExact(h, current) ==
    IF h.performance_measure = "Relative improvement" THEN DoExactRelative ELSE current

\* Variant: Exact is never forced.
ExactDueNever(count, every) == FALSE

\* Variant: the test written with ">".
ExactDueLate(count, every) == count > every

\* The test that forces Exact and resets the counter.
ExactDue(count, every) == count = every

\* accept is what move_acceptance returns, pick what pick_heurestic returns.
PickStrategy(cost, pick, accept) ==
    IF pricing_strategy = "Hyper" /\ ~ExactDue(no_improvement, do_exact)
    THEN IF hyper_heuristic.initialisation
         THEN /\ do_exact' = InitialDoExact(hyper_heuristic, do_exact)
              /\ hyper_heuristic' = HyperInitialise(hyper_heuristic, cost)
              /\ driven' = InitialCalls(cost)
              /\ strategy' = "BestPaths"
              /\ update' = Some(TRUE)
              /\ forced_exact' = FALSE
              /\ UNCHANGED no_improvement
         ELSE /\ hyper_heuristic' = HyperStep(hyper_heuristic, cost)
              /\ driven' = SteadyCalls(cost, produced_column)
              /\ update' = Some(accept)
              /\ strategy' = pick
              /\ forced_exact' = FALSE
              /\ UNCHANGED << do_exact, no_improvement >>
    ELSE IF ExactDue(no_improvement, do_exact)
         THEN /\ no_improvement' = 0
              /\ strategy' = "Exact"
              /\ forced_exact' = TRUE
              /\ driven' = << >>
              /\ update' = Some(TRUE)
              /\ UNCHANGED << do_exact, hyper_heuristic >>
         ELSE /\ strategy' = pricing_strategy
              /\ forced_exact' = FALSE
              /\ driven' = << >>
              /\ update' = Some(TRUE)
              /\ UNCHANGED << do_exact, hyper_heuristic, no_improvement >>

MasterSolve(Costs, Statuses, Picks, Accepts, Limit) ==
    /\ pc = "cg"
    /\ more_routes
    /\ iteration < Limit
    /\ \E d \in Ticks(time_limit), status \in Statuses, cost \in Costs, pick \in Picks,
          accept \in Accepts :
          /\ elapsed' = Advance(elapsed, d)
          /\ master_call' = Some([ routine |-> IF dive THEN "solve_and_dive" ELSE "solve",
                                   status |-> status,
                                   ordinal |-> iteration + 1 ])
          /\ IF ~dive /\ status # "Optimal"
             THEN \* MasterSolvePulp.solve raises
                  /\ pc' = "error"
                  /\ raised' = "relaxed solve"
                  /\ UNCHANGED << locals, calls, do_exact, hyper_heuristic,
                                  no_improvement, entry_no_improvement, duals >>
             ELSE /\ duals' = Some(iteration + 1)
                  /\ UNCHANGED raised
                  /\ relaxed_cost' = Some(cost)
                  /\ entry_no_improvement' = no_improvement
                  /\ PickStrategy(cost, pick, accept)
                  /\ vehicle' = 0
                  /\ calls' = << >>
                  /\ pc' = "pricing"
    /\ UNCHANGED << solves, graph, more_routes, iteration, lower_bound, dive, arguments,
                    produced_column, pass_iterations, exit_taken, best_value,
                    time_result, columns, pool, priced, new_column, passes, mip_solves,
                    extraction, best_routes, apart >>

(***************************************************************************)
(* _find_columns, the body of the loop over the vehicle types.             *)
(***************************************************************************)
\* Variant: the column is added only if the hyper-heuristic accepted the move.
MasterUpdateIfAccepted(y, r) ==
    IF r.more_routes /\ r.produced_column /\ update = Some(TRUE) THEN y + 1 ELSE y

\* Variant: the update is made whatever the pricing reported.
MasterUpdateAlways(y, r) == y + 1

\* Variant: the update rebuilds the master over the new route alone.
MasterUpdateRebuild(y, r) == IF r.more_routes /\ r.produced_column THEN 1 ELSE y

\* Variant: the configured strategy is passed on in place of the chosen one.
PricingArgumentsConfigured(k, d, s) ==
    [vehicle |-> k, duals |-> d, strategy |-> pricing_strategy]

\* The arguments of _solve_subproblem_with_heuristic for vehicle type k.
PricingArguments(k, d, s) == [vehicle |-> k, duals |-> d, strategy |-> s]

\* masterproblem.update(self.routes[-1]), called when the flag is set and a
\* column was produced: one more route-selection variable.
MasterUpdate(y, r) == IF r.more_routes /\ r.produced_column THEN y + 1 ELSE y

\* Variant: the route is added whatever the pricing reported.
AddRouteAlways(p, r, route) == p \cup {route}

\* Variant: the new route takes the place of the routes that visit the same customers.
AddRouteInPlace(p, r, route) ==
    IF r.more_routes /\ r.produced_column
    THEN { x \in p : x.cover # route.cover } \cup {route}
    ELSE p

\* The routes of the master after the same update, self.routes[-1] being route.
AddRoute(p, r, route) ==
    IF r.more_routes /\ r.produced_column THEN p \cup {route} ELSE p

\* The column handed to masterproblem.update, with the origin tag written on
\* it just before: the strategy chosen for the iteration.
NewColumn(r, dynamic_pricing_strategy, route) ==
    IF r.more_routes /\ r.produced_column
    THEN Some([heuristic |-> dynamic_pricing_strategy, route |-> route])
    ELSE None

\* Variant: the flag is cleared once per iteration, so that a vehicle type
\* priced earlier in the iteration keeps it set.
MoreRoutesOfAnyVehicle(k, flag, r) == (k > 0 /\ flag) \/ r.more_routes

\* self._more_routes after the pricing of vehicle type k: it is cleared before
\* every pricing, and what the pricing leaves is what the loop reads.
MoreRoutesAfter(k, flag, r) == r.more_routes

PriceVehicle(Results, Found) ==
    /\ pc = "pricing"
    /\ vehicle < vehicle_types
    /\ \E d \in Ticks(time_limit), r \in SolveSubproblemWithHeuristic(pricing_strategy, strategy),
          route \in Found :
          /\ r \in Results
          /\ elapsed' = Advance(elapsed, d)
          /\ calls' = r.calls
          /\ more_routes' = MoreRoutesAfter(vehicle, more_routes, r)
          /\ produced_column' = r.produced_column
          /\ columns' = MasterUpdate(columns, r)
          /\ pool' = AddRoute(pool, r, route)
          /\ new_column' = NewColumn(r, strategy, route)
    /\ priced' = Append(priced, PricingArguments(vehicle, duals, strategy))
    /\ vehicle' = vehicle + 1
    /\ UNCHANGED << pc, solves, graph, iteration, no_improvement, lower_bound, do_exact,
                    dive, arguments, hyper_heuristic, relaxed_cost, strategy,
                    entry_no_improvement, forced_exact, driven, update, pass_iterations,
                    exit_taken, best_value, time_result, master_call, duals, passes,
                    outcome, apart >>

(***************************************************************************)
(* _find_columns, last part: the convergence bookkeeping.                  *)
(***************************************************************************)
\* Variant: the counter is incremented whatever the objective.
NextNoImprovementAlways(it, cost, bound, count) == count + 1

\* self._no_improvement after the bookkeeping (lower_bound is not empty).
NextNoImprovement(it, cost, bound, count) ==
    IF it > 1 /\ cost = Last(bound) THEN count + 1 ELSE 0

\* Variant: the objective is recorded in the dive pass too.
RecordLowerBoundAlways(d, bound, cost) == Append(bound, cost)

\* if not self._dive: self._lower_bound.append(relaxed_cost)
RecordLowerBound(d, bound, cost) == IF ~d THEN Append(bound, cost) ELSE bound

EndIteration ==
    /\ pc = "pricing"
    /\ vehicle = vehicle_types
    /\ iteration' = iteration + 1
    /\ IF iteration' > 1 /\ lower_bound = << >>
       THEN \* self._lower_bound[-1] raises IndexError
            /\ pc' = "error"
            /\ raised' = "IndexError"
            /\ UNCHANGED << no_improvement, lower_bound >>
       ELSE /\ UNCHANGED raised
            /\ no_improvement' =
                   NextNoImprovement(iteration', Val(relaxed_cost), lower_bound, no_improvement)
            /\ lower_bound' = RecordLowerBound(dive, lower_bound, Val(relaxed_cost))
            /\ pc' = "test"
    \* the locals of _find_columns end with the call
    /\ relaxed_cost' = None
    /\ strategy' = "None"
    /\ vehicle' = 0
    /\ forced_exact' = FALSE
    /\ master_call' = None
    /\ duals' = None
    /\ priced' = << >>
    /\ new_column' = None
    /\ driven' = << >>
    /\ update' = None
    /\ pass_iterations' = pass_iterations + 1
    /\ UNCHANGED << solves, graph, more_routes, do_exact, dive, arguments, elapsed,
                    produced_column, hyper_heuristic, calls, entry_no_improvement,
                    exit_taken, best_value, time_result, columns, pool, passes,
                    mip_solves, extraction, best_routes, apart >>

(***************************************************************************)
(* _column_generation: the stopping tests after _find_columns.             *)
(***************************************************************************)
\* Variant: the time test written as "< 0".
TimeUpNegative(first, second) == IsFloat(first) /\ Val(second) < 0

\* Variant: the iteration cap tested with ">".
LimitReachedLate(count, it, cap) ==
    count > NoImprovementLimit \/ (Truthy(cap) /\ it > Val(cap))

\* Variant: the iteration cap counts the iterations of the running call only.
LimitReachedPerCall(count, it, cap) ==
    count > NoImprovementLimit \/ (Truthy(cap) /\ pass_iterations >= Val(cap))

TimeUp(first, second) == IsFloat(first) /\ second = Some(0)

LimitReached(count, it, cap) ==
    count > NoImprovementLimit \/ (Truthy(cap) /\ it >= Val(cap))

StopTest ==
    /\ pc = "test"
    /\ \E d \in Ticks(time_limit) :
          LET first  == GetTimeRemaining(time_limit, elapsed, FALSE)
              second == GetTimeRemaining(time_limit, Advance(elapsed, d), FALSE)
          IN  /\ elapsed' = Advance(elapsed, d)
              /\ IF TimeUp(first, second)
                 THEN exit_taken' = "time" /\ pc' = "after"
                 ELSE IF LimitReached(no_improvement, iteration, max_iter)
                 THEN exit_taken' = "limit" /\ pc' = "after"
                 ELSE exit_taken' = "none" /\ pc' = "cg"
    /\ UNCHANGED << solves, graph, more_routes, iteration, no_improvement, lower_bound,
                    do_exact, dive, arguments, produced_column, hyper_heuristic, locals,
                    calls, entry_no_improvement, pass_iterations, best_value,
                    time_result, columns, pool, master_locals, passes, outcome, apart >>

(***************************************************************************)
(* solve, after the first _column_generation.                              *)
(***************************************************************************)
\* if dive: the second pass starts
StartDive ==
    /\ pc = "after"
    /\ dive_arg /\ ~dive
    /\ dive' = TRUE
    /\ more_routes' = TRUE
    /\ exit_taken' = "none"
    /\ calls' = << >>
    /\ pass_iterations' = 0
    /\ pc' = "cg"
    /\ passes' = passes + 1
    /\ UNCHANGED << solves, graph, iteration, no_improvement, lower_bound, do_exact,
                    arguments, elapsed, produced_column, hyper_heuristic, locals,
                    entry_no_improvement, best_value, time_result, columns, pool,
                    master_locals, outcome, apart >>

\* Variant: the integer solve without the test on the graph.
FinalStepAnyGraph(d, n) == IF d THEN "relaxed" ELSE "integer"

\* Variant: the integer solve without the test on dive.
FinalStepAnyMode(d, n) == IF n > 2 THEN "integer" ELSE "none"

\* What solve does after column generation: if dive / elif len(self.G.nodes()) > 2
FinalStep(d, n) == IF d THEN "relaxed" ELSE IF n > 2 THEN "integer" ELSE "none"

\* _best_routes_as_node_lists, the merge with the preassigned routes; solve
\* returns after it unless it raises.
MergeWithPreassigned ==
    LET merged == MergeFrom(preassignments, 1, Val(H))
    IN  /\ best_routes' = merged.routes
        /\ pc' = IF merged.error THEN "error" ELSE "idle"
        /\ raised' = IF merged.error THEN "KeyError" ELSE raised

\* the extraction of the solution: relaxed after the dive pass, as a MIP otherwise
Finish(Costs, Statuses) ==
    /\ pc = "after"
    /\ ~(dive_arg /\ ~dive)
    /\ \E status \in Statuses, cost \in Costs :
          IF FinalStep(dive, nodes) = "relaxed"
          THEN /\ best_value' = Some(cost)
               /\ extraction' = "relaxed"
               /\ exit_taken' = "none"
               /\ UNCHANGED mip_solves
               /\ MergeWithPreassigned
          ELSE IF FinalStep(dive, nodes) = "integer"
          THEN /\ mip_solves' = mip_solves + 1
               /\ IF status # "Optimal"
                  THEN \* MasterSolvePulp.solve raises
                       /\ pc' = "error" /\ raised' = "integer solve"
                       /\ UNCHANGED << best_value, extraction, exit_taken, best_routes >>
                  ELSE /\ best_value' = Some(cost)
                       /\ extraction' = "integer"
                       /\ exit_taken' = "none"
                       /\ MergeWithPreassigned
          ELSE /\ exit_taken' = "none"
               /\ UNCHANGED << best_value, mip_solves, extraction >>
               /\ MergeWithPreassigned
    /\ calls' = << >>
    /\ entry_no_improvement' = 0
    /\ UNCHANGED << solves, graph, more_routes, iteration, no_improvement, lower_bound,
                    do_exact, dive, arguments, elapsed, produced_column,
                    hyper_heuristic, locals, pass_iterations, time_result, columns, pool,
                    master_locals, passes, apart >>

(***************************************************************************)
(* Spec: one solve call on a new object, every configuration, a few        *)
(* iterations.                                                             *)
(***************************************************************************)
TimeLimits == {None, Some(0), Some(1)}
MaxIters == {None} \cup { Some(n) : n \in 1 .. MaxIterArg }
AllResults ==
    UNION { SolveSubproblemWithHeuristic(c, s) : c \in PricingStrategies, s \in Strategies }

\* A preassignment that locks every customer: one complete route over both.
AllLocked == << << "Source", "a", "b", "Sink" >> >>

Next ==
    \/ \E s \in PricingStrategies, l \in TimeLimits, m \in MaxIters, d \in BOOLEAN,
          p \in {<< >>, AllLocked} : Solve(s, l, m, d, p, 1)
    \/ PreSolve
    \/ WhileExit
    \/ MasterSolve(RelaxedCosts, LpStatuses, Strategies, {TRUE}, MaxIteration)
    \/ PriceVehicle(AllResults, {AnyRoute})
    \/ EndIteration
    \/ StopTest
    \/ StartDive
    \/ Finish(RelaxedCosts, LpStatuses)

Spec == Init /\ [][Next]_vars

(***************************************************************************)
(* SpecAgain: several solve calls on one object, without time limit, dive  *)
(* or preassignments.                                                      *)
(***************************************************************************)
NextAgain ==
    \/ \E s \in PricingStrategies, m \in MaxIters :
          Solve(s, None, m, FALSE, << >>, MaxSolves)
    \/ PreSolve
    \/ WhileExit
    \/ MasterSolve(RelaxedCosts, LpStatuses, Strategies, {TRUE}, MaxIteration)
    \/ PriceVehicle(AllResults, {AnyRoute})
    \/ EndIteration
    \/ StopTest
    \/ Finish(RelaxedCosts, LpStatuses)

SpecAgain == Init /\ [][NextAgain]_vars

(***************************************************************************)
(* SpecLong: one solve call without time limit, max_iter or dive, in which *)
(* the relaxed objective stops moving after the first WarmUp iterations    *)
(* and every pricing call then reports a route.                            *)
(***************************************************************************)
LongCosts == IF iteration < WarmUp THEN RelaxedCosts ELSE { Last(lower_bound) }
LongResults == IF iteration < WarmUp THEN AllResults
               ELSE { r \in AllResults : \A i \in DOMAIN r.calls : r.calls[i].found }

InitLong == \E measure \in PerformanceMeasures : Constructed(1, measure)

NextLong ==
    \/ \E s \in PricingStrategies : Solve(s, None, None, FALSE, << >>, 1)
    \/ PreSolve
    \/ WhileExit
    \/ MasterSolve(LongCosts, {"Optimal"}, Strategies, {TRUE}, MaxLongRun)
    \/ PriceVehicle(LongResults, {AnyRoute})
    \/ EndIteration
    \/ StopTest
    \/ Finish(RelaxedCosts, {"Optimal"})

SpecLong == InitLong /\ [][NextLong]_vars

(***************************************************************************)
(* SpecCarry: two solve calls on one object, the first stopped by          *)
(* max_iter = CarryIter, the second without limit, in which the relaxed    *)
(* objective stops moving after the first WarmUp iterations and every      *)
(* pricing call then reports a route.                                      *)
(***************************************************************************)
NextCarry ==
    \/ \E s \in PricingStrategies :
          Solve(s, None, IF solves = 0 THEN Some(CarryIter) ELSE None, FALSE, << >>,
                MaxSolves)
    \/ PreSolve
    \/ WhileExit
    \/ MasterSolve(LongCosts, {"Optimal"}, Strategies, {TRUE}, MaxLongRun)
    \/ PriceVehicle(LongResults, {AnyRoute})
    \/ EndIteration
    \/ StopTest
    \/ Finish({MaxCost}, {"Optimal"})

SpecCarry == InitLong /\ [][NextCarry]_vars

(***************************************************************************)
(* SpecMaster: one solve call without time limit or dive, in which the     *)
(* master is the set-covering problem over the routes it holds and the     *)
(* solver returns its optimum.  Pricing may report any route.              *)
(***************************************************************************)
RECURSIVE TotalCost(_)
TotalCost(S) ==
    IF S = {} THEN 0
    ELSE LET x == CHOOSE x \in S : TRUE IN x.cost + TotalCost(S \ {x})

\* visit_node constraints: every customer is on a selected route.
Covers(S) == UNION { x.cover : x \in S } = Customers

\* The optimum of the master over the routes p with integer variables.
IntegerOptimum(p) ==
    LET values == { TotalCost(S) : S \in { T \in SUBSET p : Covers(T) } }
    IN  CHOOSE v \in values : \A w \in values : v <= w

\* The optimum with continuous variables.  With two visit_node constraints
\* every square submatrix of the 0/1 constraint matrix has determinant 0, 1
\* or -1, so the relaxation has an integer optimal solution.
RelaxedOptimum(p) == IntegerOptimum(p)

NextMaster ==
    \/ \E s \in PricingStrategies, m \in MaxIters : Solve(s, None, m, FALSE, << >>, 1)
    \/ PreSolve
    \/ WhileExit
    \/ MasterSolve({RelaxedOptimum(pool)}, {"Optimal"}, Strategies, BOOLEAN, MaxIteration)
    \/ PriceVehicle(AllResults, Routes)
    \/ EndIteration
    \/ StopTest
    \/ Finish({IntegerOptimum(pool)}, {"Optimal"})

SpecMaster == Init /\ [][NextMaster]_vars

(***************************************************************************)
(* SpecGraph: several solve calls on one object, with or without fixed     *)
(* costs, the preassigned routes being given in the first call and kept by *)
(* the object afterwards.  Each call makes at most one iteration.          *)
(***************************************************************************)
\* Lists of preassigned routes along edges of the graph, no customer on two
\* routes of a list.
Preassigned ==
    { << >>,
      << << "Source", "a", "b", "Sink" >> >>,
      << << "Source", "a", "Sink" >> >>,
      << << "Source", "a", "Sink" >>, << "Source", "b", "Sink" >> >>,
      << << "Source", "a" >> >>,
      << << "a", "b" >> >>,
      << << "Source", "a", "Sink" >>, << "b", "Sink" >> >>,
      << << "Source", "b" >>, << "Source", "a", "Sink" >> >> }

\* The fixed costs an object may have: none, or one per vehicle type.
FixedCosts(types) == { None, [k \in 1 .. types |-> 1 + (k % MaxFixedCost)] }

InitGraph ==
    \E types \in 1 .. MaxVehicleTypes :
        \E fixed \in FixedCosts(types) : ConstructedWith(types, "Weighted average", fixed)

NextGraph ==
    \/ \E p \in Preassigned :
          Solve("Exact", None, Some(1), FALSE, IF solves = 0 THEN p ELSE << >>,
                MaxGraphSolves)
    \/ PreSolve
    \/ WhileExit
    \/ MasterSolve({1}, {"Optimal"}, {"Exact"}, {TRUE}, MaxGraphSolves)
    \/ PriceVehicle(AllResults, {AnyRoute})
    \/ EndIteration
    \/ StopTest
    \/ Finish({1}, {"Optimal"})

SpecGraph == InitGraph /\ [][NextGraph]_vars

(***************************************************************************)
(* SpecTime: _get_time_remaining over time limits and elapsed times.       *)
(***************************************************************************)
WideTimeLimits == {None} \cup { Some(t) : t \in 0 .. MaxTimeLimit }

InitTime ==
    \E limit \in WideTimeLimits :
        /\ pc = "timing"
        /\ solves = 1
        /\ nodes = 4
        /\ G = NewGraph(1)
        /\ H = None
        /\ fixed_cost = None
        /\ update = None
        /\ best_routes = << >>
        /\ preassignments = << >>
        /\ vehicle_types = 1
        /\ more_routes = TRUE
        /\ iteration = 0
        /\ no_improvement = 0
        /\ lower_bound = << >>
        /\ do_exact = DoExactDefault
        /\ dive = FALSE
        /\ dive_arg = FALSE
        /\ pricing_strategy = "BestEdges1"
        /\ time_limit = limit
        /\ max_iter = None
        /\ elapsed = 0
        /\ produced_column = FALSE
        /\ hyper_heuristic = NewHyperHeuristic("Weighted average")
        /\ relaxed_cost = None
        /\ strategy = "None"
        /\ vehicle = 0
        /\ calls = << >>
        /\ entry_no_improvement = 0
        /\ forced_exact = FALSE
        /\ pass_iterations = 0
        /\ exit_taken = "none"
        /\ best_value = None
        /\ time_result = None
        /\ columns = 0
        /\ master_call = None
        /\ duals = None
        /\ priced = << >>
        /\ passes = 0
        /\ mip_solves = 0
        /\ extraction = "none"
        /\ raised = "none"
        /\ pool = {}
        /\ new_column = None
        /\ driven = << >>
        /\ selection = None
        /\ conversion = None
        /\ knapsack = None

TimePasses ==
    /\ pc = "timing"
    /\ elapsed < MaxElapsed
    /\ elapsed' = elapsed + 1
    /\ UNCHANGED << pc, solves, graph, more_routes, iteration, no_improvement,
                    lower_bound, do_exact, dive, arguments, produced_column,
                    hyper_heuristic, locals, calls, entry_no_improvement,
                    pass_iterations, exit_taken, best_value, time_result, columns, pool,
                    master_locals, passes, outcome, apart >>

AskTime(mip) ==
    /\ pc = "timing"
    /\ time_result' = Some([ mip |-> mip, at |-> elapsed,
                             value |-> GetTimeRemaining(time_limit, elapsed, mip) ])
    /\ UNCHANGED << pc, solves, graph, more_routes, iteration, no_improvement,
                    lower_bound, do_exact, dive, arguments, elapsed, produced_column,
                    hyper_heuristic, locals, calls, entry_no_improvement,
                    pass_iterations, exit_taken, best_value, columns, pool, master_locals,
                    passes, outcome, apart >>

NextTime == TimePasses \/ \E mip \in BOOLEAN : AskTime(mip)

SpecTime == InitTime /\ [][NextTime]_vars

(***************************************************************************)
(* SpecKnapsack: knapsack(weights, capacity), one cell of sol per step.    *)
(***************************************************************************)
\* A Python list index (negative ones count from the end) as a sequence index.
PyIndex(i, n) == (IF i < 0 THEN i + n ELSE i) + 1

\* The state of the call before its loops: sol is n rows of capacity + 1 zeros.
KnapsackStart(w, c) ==
    [ weights |-> w,
      capacity |-> c,
      sol |-> [r \in 1 .. Len(w) |-> [k \in 0 .. c |-> 0]],
      i |-> 0,
      j |-> 0,
      result |-> None ]

\* The body of the inner loop for the cell (i, j); sol[i - 1] is read from the
\* table as it stands.
KnapsackCell(k) ==
    LET n    == Len(k.weights)
        w    == k.weights[k.i + 1]
        prev == k.sol[PyIndex(k.i - 1, n)]
        sol_add == 1 + prev[k.j - w]
        value == IF w > k.j THEN prev[k.j]
                 ELSE IF sol_add > prev[k.j] THEN sol_add
                 ELSE prev[k.j]
    IN  [k EXCEPT !.sol[k.i + 1][k.j] = value,
                  !.j = IF k.j < k.capacity THEN k.j + 1 ELSE 0,
                  !.i = IF k.j < k.capacity THEN k.i ELSE k.i + 1]

\* return sol[n - 1][capacity]
KnapsackResult(k) == k.sol[PyIndex(Len(k.weights) - 1, Len(k.weights))][k.capacity]

WeightLists == UNION { [1 .. n -> 0 .. MaxWeight] : n \in 1 .. MaxItems }

InitKnapsack ==
    \E w \in WeightLists, c \in 0 .. MaxCapacity :
        /\ pc = "knapsack"
        /\ solves = 0
        /\ nodes = 4
        /\ G = NewGraph(1)
        /\ H = None
        /\ fixed_cost = None
        /\ update = None
        /\ best_routes = << >>
        /\ preassignments = << >>
        /\ vehicle_types = 1
        /\ more_routes = FALSE
        /\ iteration = 0
        /\ no_improvement = 0
        /\ lower_bound = << >>
        /\ do_exact = DoExactDefault
        /\ dive = FALSE
        /\ dive_arg = FALSE
        /\ pricing_strategy = "None"
        /\ time_limit = None
        /\ max_iter = None
        /\ elapsed = 0
        /\ produced_column = FALSE
        /\ hyper_heuristic = NewHyperHeuristic("Weighted average")
        /\ relaxed_cost = None
        /\ strategy = "None"
        /\ vehicle = 0
        /\ calls = << >>
        /\ entry_no_improvement = 0
        /\ forced_exact = FALSE
        /\ pass_iterations = 0
        /\ exit_taken = "none"
        /\ best_value = None
        /\ time_result = None
        /\ columns = 0
        /\ master_call = None
        /\ duals = None
        /\ priced = << >>
        /\ passes = 0
        /\ mip_solves = 0
        /\ extraction = "none"
        /\ raised = "none"
        /\ pool = {}
        /\ new_column = None
        /\ driven = << >>
        /\ selection = None
        /\ conversion = None
        /\ knapsack = KnapsackStart(w, c)

KnapsackStep ==
    /\ pc = "knapsack"
    /\ knapsack.i < Len(knapsack.weights)
    /\ knapsack' = KnapsackCell(knapsack)
    /\ UNCHANGED << pc, solves, graph, more_routes, iteration, no_improvement,
                    lower_bound, do_exact, dive, arguments, elapsed, produced_column,
                    hyper_heuristic, locals, calls, entry_no_improvement,
                    pass_iterations, exit_taken, best_value, time_result, columns, pool,
                    master_locals, passes, outcome, selection, conversion >>

KnapsackReturn ==
    /\ pc = "knapsack"
    /\ knapsack.i = Len(knapsack.weights)
    /\ knapsack.result = None
    /\ knapsack' = [knapsack EXCEPT !.result = Some(KnapsackResult(knapsack))]
    /\ UNCHANGED << pc, solves, graph, more_routes, iteration, no_improvement,
                    lower_bound, do_exact, dive, arguments, elapsed, produced_column,
                    hyper_heuristic, locals, calls, entry_no_improvement,
                    pass_iterations, exit_taken, best_value, time_result, columns, pool,
                    master_locals, passes, outcome, selection, conversion >>

NextKnapsack == KnapsackStep \/ KnapsackReturn

SpecKnapsack == InitKnapsack /\ [][NextKnapsack]_vars

(***************************************************************************)
(* SpecSelection: MasterSolvePulp.get_total_cost_and_routes over the       *)
(* values the solver left in the route-selection variables.  Values are    *)
(* written in tenths: 5 is 0.5.                                            *)
(***************************************************************************)
\* The variables of the column-generation loop, as on a new object.
LoopAtRest ==
    /\ solves = 0
    /\ nodes = 4
    /\ G = NewGraph(1)
    /\ H = None
    /\ fixed_cost = None
    /\ update = None
    /\ best_routes = << >>
    /\ preassignments = << >>
    /\ vehicle_types = 1
    /\ more_routes = FALSE
    /\ iteration = 0
    /\ no_improvement = 0
    /\ lower_bound = << >>
    /\ do_exact = DoExactDefault
    /\ dive = FALSE
    /\ dive_arg = FALSE
    /\ pricing_strategy = "None"
    /\ time_limit = None
    /\ max_iter = None
    /\ elapsed = 0
    /\ produced_column = FALSE
    /\ hyper_heuristic = NewHyperHeuristic("Weighted average")
    /\ relaxed_cost = None
    /\ strategy = "None"
    /\ vehicle = 0
    /\ calls = << >>
    /\ entry_no_improvement = 0
    /\ forced_exact = FALSE
    /\ pass_iterations = 0
    /\ exit_taken = "none"
    /\ best_value = None
    /\ time_result = None
    /\ columns = 0
    /\ master_call = None
    /\ duals = None
    /\ priced = << >>
    /\ passes = 0
    /\ mip_solves = 0
    /\ extraction = "none"
    /\ raised = "none"
    /\ pool = {}
    /\ new_column = None
    /\ driven = << >>

\* pulp.value of a route-selection variable: None, or a value between 0 and 1.
SelectionValues == {None} \cup { Some(v) : v \in 0 .. 10 }

\* The routes kept by the loop of get_total_cost_and_routes, from position i
\* of self.routes on: those whose value is not None and above 0.
RECURSIVE BestRoutes(_, _)
BestRoutes(y, i) ==
    IF i > Len(y) THEN << >>
    ELSE LET val == y[i]
         IN  (IF val # None /\ Val(val) > 0 THEN << i >> ELSE << >>) \o BestRoutes(y, i + 1)

InitSelection ==
    \E n \in 1 .. MaxPool, relax \in BOOLEAN :
        \E y \in [1 .. n -> SelectionValues] :
            /\ pc = "extraction"
            /\ LoopAtRest
            /\ knapsack = None
            /\ conversion = None
            /\ selection = [y |-> y, relax |-> relax, best_routes |-> None]

GetTotalCostAndRoutes ==
    /\ pc = "extraction"
    /\ selection.best_routes = None
    /\ selection' = [selection EXCEPT !.best_routes = Some(BestRoutes(selection.y, 1))]
    /\ UNCHANGED << pc, solves, graph, more_routes, iteration, no_improvement,
                    lower_bound, do_exact, dive, arguments, elapsed, produced_column,
                    hyper_heuristic, locals, calls, entry_no_improvement,
                    pass_iterations, exit_taken, best_value, time_result, columns, pool,
                    master_locals, passes, outcome, knapsack, conversion >>

NextSelection == GetTotalCostAndRoutes

SpecSelection == InitSelection /\ [][NextSelection]_vars

(***************************************************************************)
(* SpecDistribution: MasterSolvePulp.get_heuristic_distribution over the   *)
(* values of the route-selection variables and the origin tags of the      *)
(* routes (None: the route has no "heuristic" attribute).                  *)
(***************************************************************************)
Origins == Strategies \cup {"Other"}
\* pulp.value of a route-selection variable: None, 0, 0.5 or 1.
DistributionValues == {None, Some(0), Some(5), Some(10)}
Tags == {None} \cup { Some(s) : s \in Origins }

\* Variant: a route without a tag is returned but not counted.
CountRouteIfTagged(acc, i) ==
    LET tag == acc.heuristic[i]
    IN  IF tag # None
        THEN [acc EXCEPT !.counts[Val(tag)] = @ + 1, !.best_routes = Append(@, i)]
        ELSE [acc EXCEPT !.best_routes = Append(@, i)]

\* The body of the loop for a selected route i: the count of its tag goes up;
\* if that raises (no tag), the route is tagged "Other" and counted there.
CountRoute(acc, i) ==
    LET tag == acc.heuristic[i]
    IN  IF tag # None
        THEN [acc EXCEPT !.counts[Val(tag)] = @ + 1, !.best_routes = Append(@, i)]
        ELSE [acc EXCEPT !.heuristic[i] = Some("Other"),
                         !.counts["Other"] = @ + 1,
                         !.best_routes = Append(@, i)]

\* The loop over self.routes from position i on.
RECURSIVE HeuristicDistribution(_, _, _)
HeuristicDistribution(y, i, acc) ==
    IF i > Len(y) THEN acc
    ELSE LET val == y[i]
         IN  HeuristicDistribution(y, i + 1,
                 IF val # None /\ Val(val) > 0 THEN CountRoute(acc, i) ELSE acc)

InitDistribution ==
    \E n \in 1 .. MaxPool :
        \E y \in [1 .. n -> DistributionValues], tags \in [1 .. n -> Tags] :
            /\ pc = "distribution"
            /\ LoopAtRest
            /\ knapsack = None
            /\ conversion = None
            /\ selection = [y |-> y, heuristic |-> tags, result |-> None]

GetHeuristicDistribution ==
    /\ pc = "distribution"
    /\ selection.result = None
    /\ selection' =
           [selection EXCEPT !.result =
               Some(HeuristicDistribution(selection.y, 1,
                        [ counts |-> [s \in Origins |-> 0],
                          best_routes |-> << >>,
                          heuristic |-> selection.heuristic ]))]
    /\ UNCHANGED << pc, solves, graph, more_routes, iteration, no_improvement,
                    lower_bound, do_exact, dive, arguments, elapsed, produced_column,
                    hyper_heuristic, locals, calls, entry_no_improvement,
                    pass_iterations, exit_taken, best_value, time_result, columns, pool,
                    master_locals, passes, outcome, knapsack, conversion >>

NextDistribution == GetHeuristicDistribution

SpecDistribution == InitDistribution /\ [][NextDistribution]_vars

(***************************************************************************)
(* SpecRoutes: an initial route given as a node list is converted to a     *)
(* digraph by _convert_initial_routes_to_digraphs, selected by the master  *)
(* and read back by _best_routes_as_node_lists.                            *)
(***************************************************************************)
CustomerNodes == {"a", "b", "c"}
GraphNodes == CustomerNodes \cup {"Source", "Sink"}

\* The node lists from Source to Sink with 1 to MaxStops stops at customers
\* between, along edges of a graph that joins every two distinct customers
\* in both directions; a customer may be visited more than once.
NodeLists ==
    { << "Source" >> \o m \o << "Sink" >> :
          m \in { x \in UNION { [1 .. n -> CustomerNodes] : n \in 1 .. MaxStops } :
                      \A i \in 1 .. Len(x) - 1 : x[i] # x[i + 1] } }

\* Variant: the digraph gets an edge from the first node to the last as well.
EdgesWithShortcut(r) ==
    { << r[i], r[i + 1] >> : i \in 1 .. Len(r) - 1 } \cup { << r[1], r[Len(r)] >> }

\* edges = list(zip(r[:-1], r[1:])), added to a DiGraph, which keeps one edge
\* per pair of nodes.
Edges(r) == { << r[i], r[i + 1] >> : i \in 1 .. Len(r) - 1 }

\* The digraph built for the initial route r with identifier route_id.
RouteDigraph(r, route_id) == [name |-> route_id, edges |-> Edges(r), vehicle_type |-> 0]

\* The directed paths of the digraph from Source to Sink.
PathsToSink(E) ==
    { q \in UNION { [1 .. n -> GraphNodes] : n \in 2 .. Cardinality(GraphNodes) } :
          /\ q[1] = "Source"
          /\ q[Len(q)] = "Sink"
          /\ \A i \in 1 .. Len(q) - 1 : << q[i], q[i + 1] >> \in E }

\* networkx.shortest_path(route, "Source", "Sink") returns one of the paths
\* with the fewest edges.
ShortestPaths(E) ==
    { q \in PathsToSink(E) : \A o \in PathsToSink(E) : Len(q) <= Len(o) }

InitRoutes ==
    \E r \in NodeLists :
        /\ pc = "conversion"
        /\ LoopAtRest
        /\ knapsack = None
        /\ selection = None
        /\ conversion = [initial |-> r, digraph |-> None, node_list |-> None]

ConvertInitialRoutesToDigraphs ==
    /\ pc = "conversion"
    /\ conversion.digraph = None
    /\ conversion' = [conversion EXCEPT !.digraph = Some(RouteDigraph(conversion.initial, 1))]
    /\ UNCHANGED << pc, solves, graph, more_routes, iteration, no_improvement,
                    lower_bound, do_exact, dive, arguments, elapsed, produced_column,
                    hyper_heuristic, locals, calls, entry_no_improvement,
                    pass_iterations, exit_taken, best_value, time_result, columns, pool,
                    master_locals, passes, outcome, knapsack, selection >>

BestRoutesAsNodeLists ==
    /\ pc = "conversion"
    /\ conversion.digraph # None
    /\ conversion.node_list = None
    /\ \E q \in ShortestPaths(Val(conversion.digraph).edges) :
          conversion' = [conversion EXCEPT !.node_list = Some(q)]
    /\ UNCHANGED << pc, solves, graph, more_routes, iteration, no_improvement,
                    lower_bound, do_exact, dive, arguments, elapsed, produced_column,
                    hyper_heuristic, locals, calls, entry_no_improvement,
                    pass_iterations, exit_taken, best_value, time_result, columns, pool,
                    master_locals, passes, outcome, knapsack, selection >>

NextRoutes == ConvertInitialRoutesToDigraphs \/ BestRoutesAsNodeLists

SpecRoutes == InitRoutes /\ [][NextRoutes]_vars

(***************************************************************************)
(* Properties.                                                             *)
(***************************************************************************)
\* The lower-bound history holds one value only.
ConstantObjective == \A i \in DOMAIN lower_bound : lower_bound[i] = lower_bound[1]

\* C1 (as stated; SpecLong): without time limit and max_iter, a run whose
\* relaxed objective never changes still ends: the no-improvement counter
\* grows with every iteration until it passes 1000, which is after the 1002nd
\* iteration, so the loop is never about to start a 1003rd one.
C1_StagnationEndsLoop ==
    (pc = "cg" /\ more_routes /\ ConstantObjective /\ time_limit = None /\ max_iter = None)
        => Len(lower_bound) <= NoImprovementLimit + 1

\* The calls begin with a complete sweep of one non-exact strategy that found
\* no route.
SweepFailed(cs) ==
    \E s \in NonExact :
        /\ Len(cs) >= Len(SweepParameters(s))
        /\ \A i \in 1 .. Len(SweepParameters(s)) :
              cs[i] = Call(s, Some(SweepParameters(s)[i]), FALSE)

ExactAttempted(cs) == \E i \in DOMAIN cs : cs[i].strategy = "Exact"

\* A vehicle type has just been priced in the running iteration.
Priced == pc = "pricing" /\ vehicle > 0

\* C2 (as stated; Spec): for every vehicle type of every iteration, whether
\* the strategy is static or 'Hyper', a non-exact sweep that fails throughout
\* is followed by an Exact attempt before the iteration ends.
C2_SweepFailureEscalates ==
    (Priced /\ SweepFailed(calls)) => ExactAttempted(calls)

\* C2 (amended; Spec): under a static strategy a sweep that fails throughout
\* is followed at once by one Exact call, whose answer decides more_routes;
\* under 'Hyper' no Exact call follows in that iteration: more_routes stays
\* true and no column is produced.
C2_StaticEscalatesHyperDoesNot ==
    (Priced /\ SweepFailed(calls)) =>
        IF pricing_strategy = "Hyper"
        THEN ~ExactAttempted(calls) /\ more_routes /\ ~produced_column
        ELSE /\ Len(calls) = Len(SweepParameters(strategy)) + 1
             /\ Last(calls).strategy = "Exact"
             /\ more_routes = Last(calls).found

C2_Reached ==
    /\ Priced /\ vehicle = 2
    /\ pricing_strategy = "BestEdges2"
    /\ SweepFailed(calls) /\ ExactAttempted(calls)
    /\ ~more_routes

\* The objective of the running iteration differs from the last recorded
\* lower bound (or there is none yet).
ObjectiveMoved == lower_bound = << >> \/ Val(relaxed_cost) # Last(lower_bound)

\* C3 (as stated; SpecLong): at the end of every _find_columns call the
\* counter is 0 if the objective differs from the last recorded lower bound,
\* and otherwise one more than it was when the call began.
C3_CounterResetOrPlusOne ==
    [][(pc = "pricing" /\ pc' = "test") =>
          no_improvement' = IF ObjectiveMoved THEN 0 ELSE entry_no_improvement + 1]_vars

\* C3 (amended; SpecLong): at the end of every _find_columns call the counter
\* is 0 if the objective differs from the last recorded lower bound;
\* otherwise it is one more than it was when the call began, except in a call
\* that began with the counter equal to do_exact: there the counter is reset
\* before pricing and ends at 1.
C3_CounterResetPlusOneOrRestart ==
    [][(pc = "pricing" /\ pc' = "test") =>
          /\ forced_exact <=> ExactDue(entry_no_improvement, do_exact)
          /\ no_improvement' = IF ObjectiveMoved THEN 0
                               ELSE IF forced_exact THEN 1
                               ELSE entry_no_improvement + 1]_vars

C3_Reached ==
    /\ pc = "test"
    /\ entry_no_improvement = do_exact
    /\ no_improvement = 1
    /\ Len(lower_bound) > do_exact

\* C4 (Spec): once pricing has run in a pass, more_routes is false only when
\* the last pricing call was Exact and returned no route; so a pass that
\* iterated leaves the loop by the while test only then, and a non-exact
\* sweep that fails throughout leaves the flag true.
C4_OnlyExactEndsPricing ==
    /\ (calls # << >> /\ ~more_routes) =>
          (Last(calls).strategy = "Exact" /\ ~Last(calls).found)
    /\ (pc = "after" /\ exit_taken = "more_routes" /\ pass_iterations > 0) =>
          (calls # << >> /\ Last(calls).strategy = "Exact" /\ ~Last(calls).found)
    /\ (Priced /\ SweepFailed(calls) /\ ~ExactAttempted(calls)) => more_routes

C4_Reached ==
    /\ pc = "after" /\ exit_taken = "more_routes" /\ pass_iterations = 2
    /\ pricing_strategy = "Hyper"
    /\ Last(calls) = Call("Exact", None, FALSE)

\* C5 (SpecTime): _get_time_remaining(mip=False) with a time limit T > 0
\* returns T minus the elapsed time, a positive number, while the elapsed
\* time is below T, and exactly 0 once it has reached T; without a time limit
\* it returns None.
C5_RemainingPositiveThenZero ==
    (time_result # None /\ ~Val(time_result).mip) =>
        LET r == Val(time_result)
        IN  /\ (time_limit # None /\ Val(time_limit) > 0) =>
                  IF r.at < Val(time_limit)
                  THEN r.value = Some(Val(time_limit) - r.at) /\ Val(r.value) > 0
                  ELSE r.value = Some(0)
            /\ time_limit = None => r.value = None

C5_Reached ==
    /\ time_result # None /\ ~Val(time_result).mip
    /\ time_limit = Some(3)
    /\ Val(time_result).at = 5
    /\ Val(time_result).value = Some(0)

\* C6 (SpecTime): _get_time_remaining(mip=True) with a time limit returns the
\* larger of 5 and the true remaining time, hence at least 5, also after the
\* limit has passed.
C6_MipBudgetAtLeastFive ==
    (time_result # None /\ Val(time_result).mip /\ time_limit # None /\ Val(time_limit) > 0) =>
        LET r == Val(time_result)
            remaining == Val(time_limit) - r.at
        IN  /\ r.value = Some(IF remaining > 5 THEN remaining ELSE 5)
            /\ Val(r.value) >= 5

C6_Reached ==
    /\ time_result # None /\ Val(time_result).mip
    /\ time_limit = Some(3)
    /\ Val(time_result).at = 5
    /\ Val(time_result).value = Some(5)

\* The remaining time read at clock value t is 0.0.
NoTimeLeft(t) == time_limit # None /\ Val(time_limit) > 0 /\ t >= Val(time_limit)

\* C7 (Spec): when the remaining time read after an iteration is 0.0, the
\* loop is left as timed out and no further iteration starts, whatever
\* pricing reported.
C7_TimeUpEndsLoop ==
    [][(pc = "test" /\ NoTimeLeft(elapsed')) =>
          (pc' = "after" /\ exit_taken' = "time")]_vars

C7_Reached ==
    /\ pc = "after" /\ exit_taken = "time"
    /\ more_routes
    /\ max_iter = None
    /\ pass_iterations = 1

\* C8 (Spec): with max_iter = N >= 1 the loop is left at the first stopping
\* test at which the iteration counter has reached N; a solve call without
\* dive on a new object therefore makes at most N _find_columns calls.
C8_MaxIterCapsIterations ==
    [][/\ (pc = "test" /\ max_iter # None /\ Val(max_iter) >= 1
              /\ iteration >= Val(max_iter)) => pc' = "after"
       /\ (max_iter' # None /\ Val(max_iter') >= 1 /\ ~dive_arg') =>
              (iteration' <= Val(max_iter') /\ pass_iterations' <= Val(max_iter'))]_vars

C8_Reached ==
    /\ pc = "after" /\ exit_taken = "limit"
    /\ max_iter = Some(2) /\ iteration = 2
    /\ more_routes /\ ~dive_arg

\* C9 (Spec): with 'Hyper' on a new object the first _find_columns call picks
\* BestPaths whatever the relaxed objective, records it as the baseline,
\* starts the timer and clears the initialisation flag; the flag stays clear
\* in every later iteration of the run.
C9_FirstCallInitialises ==
    pricing_strategy = "Hyper" =>
        /\ (pc = "pricing" /\ iteration = 0) =>
              /\ strategy = "BestPaths"
              /\ hyper_heuristic.current_objective = relaxed_cost
              /\ hyper_heuristic.timer_started
              /\ hyper_heuristic.observations = 0
        /\ (pc = "pricing" \/ iteration > 0) => ~hyper_heuristic.initialisation

C9_Reached ==
    /\ pricing_strategy = "Hyper"
    /\ pc = "pricing" /\ iteration = 1
    /\ strategy = "BestEdges1"
    /\ hyper_heuristic.observations = 1
    /\ ~hyper_heuristic.initialisation

\* C10 (as stated; SpecAgain): every solve call starts with the
\* hyper-heuristic as constructed, so a second solve call with 'Hyper' is in
\* initialisation again and picks BestPaths in its first iteration.
C10_HyperResetAtSolve ==
    pricing_strategy = "Hyper" =>
        /\ pc = "pre_solve" =>
              hyper_heuristic = NewHyperHeuristic(hyper_heuristic.performance_measure)
        /\ (pc = "pricing" /\ pass_iterations = 0 /\ ~forced_exact) =>
              (strategy = "BestPaths" /\ hyper_heuristic.observations = 0)

C12_SweepInOrderUntilFirstRoute ==
    (Priced /\ strategy \in NonExact) =>
        LET ps == SweepParameters(strategy)
            n  == Cardinality({ i \in DOMAIN calls : calls[i].strategy # "Exact" })
        IN  /\ n >= 1 /\ n <= Len(ps)
            /\ \A i \in 1 .. n :
                  /\ calls[i].strategy = strategy
                  /\ calls[i].parameter = Some(ps[i])
                  /\ i < n => ~calls[i].found
            /\ IF calls[n].found
               THEN Len(calls) = n /\ produced_column /\ more_routes
               ELSE /\ n = Len(ps)
                    /\ IF pricing_strategy = "Hyper"
                       THEN Len(calls) = n /\ ~produced_column
                       ELSE Len(calls) = n + 1 /\ produced_column = calls[n + 1].found

C12_Reached ==
    /\ Priced /\ strategy = "BestEdges1"
    /\ Len(calls) = 3
    /\ calls[3] = Call("BestEdges1", Some(7), TRUE)
    /\ ~calls[1].found /\ ~calls[2].found
    /\ produced_column

\* C13 (Spec): masterproblem.update adds exactly one route-selection variable
\* and is called once per pricing that set the flag and produced a column;
\* nothing else changes the number of variables, which never goes down.
C13_ColumnsOnlyGrow ==
    [][/\ columns' >= columns
       /\ (pc = "pricing" /\ columns' # columns) =>
              (columns' = columns + 1 /\ vehicle' = vehicle + 1
                  /\ more_routes' /\ produced_column')
       /\ (pc = "pricing" /\ vehicle' = vehicle + 1 /\ more_routes' /\ produced_column') =>
              columns' = columns + 1
       /\ (pc \notin {"pricing", "pre_solve"}) => columns' = columns]_vars

C13_Reached ==
    /\ pc = "test"
    /\ columns = InitialRoutes + 3
    /\ iteration = 2

\* C14 (as stated; Spec): a relaxed master solve inside the loop, in the
\* normal pass or in the dive pass, that ends with a status other than
\* Optimal aborts the run, and no vehicle type is priced with its duals.
C14_NonOptimalRelaxedSolveAborts ==
    (master_call # None /\ Val(master_call).status # "Optimal") =>
        (pc = "error" /\ raised = "relaxed solve" /\ priced = << >>)

\* C15 (as stated; Spec): a status other than Optimal of the integer master
\* solve is not raised as an error; the solve call ends with a result.
C15_IntegerSolveNeverRaises ==
    mip_solves > 0 => (pc = "idle" /\ raised = "none")

\* C16 (as stated; Spec): a solve call whose loop stopped on the time limit or
\* on an iteration limit raises no error.
C16_LimitsEndGracefully ==
    exit_taken \in {"time", "limit"} => (pc = "after" /\ raised = "none")

\* C17 (Spec): without dive and with more than two nodes left, exactly one
\* integer master solve is made, after the loop has been left, and the
\* integer solution is then extracted; with only Source and Sink left no
\* integer solve is made.
C17_OneIntegerSolveAfterLoop ==
    /\ mip_solves <= 1
    /\ mip_solves = 1 => (pc \in {"idle", "error"} /\ ~dive_arg /\ nodes > 2 /\ passes = 1)
    /\ extraction = "integer" => mip_solves = 1
    /\ (pc = "idle" /\ solves = 1 /\ ~dive_arg) =>
          IF nodes > 2
          THEN mip_solves = 1 /\ extraction = "integer" /\ best_value # None
          ELSE mip_solves = 0 /\ extraction = "none"

C17_Reached ==
    /\ pc = "idle" /\ solves = 1 /\ ~dive_arg
    /\ nodes > 2
    /\ iteration = 2
    /\ mip_solves = 1 /\ extraction = "integer"

\* C18 (Spec): with dive=True the first pass solves the master with solve
\* (dive flag false), exactly one more pass follows in which every master
\* solve is solve_and_dive, and the solution is extracted with relax=True
\* without any integer solve.
C18_DiveRunsOneExtraPass ==
    dive_arg =>
        /\ passes <= 2
        /\ dive <=> passes = 2
        /\ mip_solves = 0
        /\ extraction \in {"none", "relaxed"}
        /\ master_call # None =>
              Val(master_call).routine = IF passes = 1 THEN "solve" ELSE "solve_and_dive"
        /\ (pc = "idle" /\ solves = 1) =>
              (passes = 2 /\ extraction = "relaxed" /\ best_value # None)

C18_Reached ==
    /\ pc = "idle" /\ solves = 1 /\ dive_arg
    /\ passes = 2 /\ extraction = "relaxed"
    /\ Len(lower_bound) = 1 /\ iteration = 3

\* C19 (Spec): in every iteration the master is solved once, before any
\* pricing; the vehicle types are priced in the order 0, 1, ..., all with the
\* duals of that one master solve and with the one strategy chosen for the
\* iteration.
C19_OneMasterSolveThenTypesInOrder ==
    [][/\ pc' = "pricing" =>
              /\ master_call' # None
              /\ Val(master_call').ordinal = iteration' + 1
              /\ duals' = Some(iteration' + 1)
              /\ Len(priced') = vehicle'
              /\ \A i \in DOMAIN priced' :
                    priced'[i] = [vehicle |-> i - 1, duals |-> duals', strategy |-> strategy']
       /\ pc' # "pricing" => priced' = << >>
       /\ (pc = "pricing" /\ pc' = "pricing") =>
              (master_call' = master_call /\ duals' = duals /\ strategy' = strategy
                  /\ vehicle' = vehicle + 1)]_vars

C19_Reached ==
    /\ pc = "pricing" /\ vehicle = 2 /\ iteration = 1
    /\ pricing_strategy = "Hyper" /\ strategy = "BestEdges2"
    /\ priced = << [vehicle |-> 0, duals |-> Some(2), strategy |-> "BestEdges2"],
                  [vehicle |-> 1, duals |-> Some(2), strategy |-> "BestEdges2"] >>

\* The total weight of the items of S.
RECURSIVE TotalWeight(_, _)
TotalWeight(w, S) ==
    IF S = {} THEN 0
    ELSE LET x == CHOOSE x \in S : TRUE IN w[x] + TotalWeight(w, S \ {x})

\* The largest number of distinct items of w whose weights sum to at most c.
MostItems(w, c) ==
    LET fits == { S \in SUBSET DOMAIN w : TotalWeight(w, S) <= c }
    IN  CHOOSE m \in 0 .. Len(w) :
            /\ \E S \in fits : Cardinality(S) = m
            /\ \A S \in fits : Cardinality(S) <= m

\* C20 (as stated; SpecKnapsack): for every non-empty list of non-negative
\* integer weights, a single-item list included, and every capacity >= 0,
\* knapsack returns the largest number of distinct items whose weights sum to
\* at most the capacity.
C20_KnapsackCountsMostItems ==
    (pc = "knapsack" /\ knapsack.result # None) =>
        Val(knapsack.result) = MostItems(knapsack.weights, knapsack.capacity)

\* The positions in self.routes of the routes returned.
Returned == { Val(selection.best_routes)[k] : k \in DOMAIN Val(selection.best_routes) }

\* C21 (as stated; SpecSelection): get_total_cost_and_routes returns exactly
\* the routes whose selection value is above 0.5; a route whose value is
\* positive but not above 0.5 is not returned.
C21_SelectedAboveHalf ==
    (pc = "extraction" /\ selection.best_routes # None) =>
        \A i \in DOMAIN selection.y :
            i \in Returned <=> (selection.y[i] # None /\ Val(selection.y[i]) > 5)

\* A solve call without dive has returned with the integer solution.
IntegerSolved == pc = "idle" /\ solves = 1 /\ ~dive_arg /\ extraction = "integer"

\* C22 (as stated; SpecMaster): after a solve call without dive has returned,
\* the best value is at least the last entry of the lower-bound history.
C22_BestValueAtLeastLowerBound ==
    IntegerSolved => Val(best_value) >= Last(lower_bound)

\* C22 (amended; SpecMaster): after a solve call without dive for one vehicle
\* type whose loop ended because pricing found no more routes, the best
\* value is at least the last entry of the lower-bound history.
C22_BestValueAtLeastLowerBoundAtConvergence ==
    (IntegerSolved /\ ~more_routes /\ vehicle_types = 1) =>
        Val(best_value) >= Last(lower_bound)

C22_Reached ==
    /\ IntegerSolved /\ ~more_routes /\ vehicle_types = 1
    /\ Len(lower_bound) = 3
    /\ lower_bound[3] < lower_bound[1]
    /\ best_value = Some(lower_bound[3])

\* C23 (SpecMaster): within one solve call the relaxed objectives recorded
\* by the successive iterations without dive never go up.
C23_RelaxedObjectiveNeverRises ==
    \A i \in DOMAIN lower_bound :
        i > 1 => lower_bound[i] <= lower_bound[i - 1]

C23_Reached ==
    /\ pc = "test" /\ ~dive
    /\ Len(lower_bound) = 3
    /\ lower_bound[2] < lower_bound[1]
    /\ lower_bound[3] < lower_bound[2]

\* The node list visits no node twice.
Elementary(r) == \A i, j \in DOMAIN r : r[i] = r[j] => i = j

\* C24 (as stated; SpecRoutes): an initial route given as a node list and
\* read back from its digraph is the same node sequence.
C24_RoundTripIsIdentity ==
    (pc = "conversion" /\ conversion.node_list # None) =>
        Val(conversion.node_list) = conversion.initial

\* C24 (amended; SpecRoutes): an initial route that visits no node twice is
\* read back from its digraph as the same node sequence.
C24_RoundTripOfElementaryRoute ==
    (pc = "conversion" /\ conversion.node_list # None /\ Elementary(conversion.initial)) =>
        Val(conversion.node_list) = conversion.initial

C24_Reached ==
    /\ pc = "conversion"
    /\ conversion.initial = << "Source", "b", "a", "c", "Sink" >>
    /\ conversion.node_list = Some(<< "Source", "b", "a", "c", "Sink" >>)

\* C25 (as stated; SpecMaster): every column added to the master carries as
\* origin tag the strategy of the pricing call that found it; a column found
\* by the Exact call that follows a failed non-exact sweep is tagged Exact.
C25_TagIsProducingStrategy ==
    (Priced /\ new_column # None) =>
        (Last(calls).found /\ Val(new_column).heuristic = Last(calls).strategy)

\* C26 (SpecMaster): the pricing of a vehicle type that found a route adds
\* exactly one column, the route found, to the master in the same step, so
\* that it is there before the next vehicle type is priced; a pricing that
\* found no route adds none.  Nothing between two pricings adds a column.
C26_OneColumnPerSuccessfulPricing ==
    [][/\ (pc = "pricing" /\ vehicle' = vehicle + 1) =>
              IF Last(calls').found
              THEN /\ columns' = columns + 1
                   /\ new_column' # None
                   /\ Val(new_column').route \in pool'
                   /\ pool' \ {Val(new_column').route} \subseteq pool
              ELSE columns' = columns /\ pool' = pool /\ new_column' = None
       /\ (pc = "pricing" /\ vehicle' # vehicle + 1) =>
              (columns' = columns /\ pool' = pool)]_vars

C26_Reached ==
    /\ Priced /\ vehicle = 1 /\ vehicle_types = 2
    /\ iteration = 0
    /\ new_column # None
    /\ columns = InitialRoutes + 1
    /\ Val(new_column).route \in pool \ InitialPool

\* C27 (Spec): a _find_columns call that reaches its bookkeeping adds 1 to
\* the iteration counter and, when not diving, appends the relaxed objective
\* of that iteration to the lower-bound history; in the dive pass the
\* history is left as it is.  No other step changes either.
C27_OneIterationOneRecord ==
    [][IF pc = "pricing" /\ pc' # "pricing"
       THEN /\ iteration' = iteration + 1
            /\ lower_bound' = IF dive THEN lower_bound
                               ELSE Append(lower_bound, Val(relaxed_cost))
       ELSE iteration' = iteration /\ lower_bound' = lower_bound]_vars

C27_Reached ==
    /\ pc = "test" /\ dive
    /\ iteration = 3
    /\ Len(lower_bound) = 2
    /\ pass_iterations = 1

\* The names of the methods called, in the order called.
Methods(d) == [i \in DOMAIN d |-> d[i].method]

C29_ExactIsOneCallThatDecides ==
    (Priced /\ ExactAttempted(calls)) =>
        /\ Cardinality({ i \in DOMAIN calls : calls[i].strategy = "Exact" }) = 1
        /\ Last(calls).strategy = "Exact"
        /\ Last(calls).parameter = None
        /\ more_routes = Last(calls).found
        /\ produced_column = Last(calls).found
        /\ strategy = "Exact" => Len(calls) = 1

C29_Reached ==
    /\ Priced /\ pricing_strategy = "Hyper" /\ strategy = "Exact"
    /\ calls = << Call("Exact", None, TRUE) >>
    /\ more_routes /\ produced_column

\* C30 (SpecAgain): do_exact is 1000 on a new object and changes only in the
\* iteration that initialises the hyper-heuristic, where it becomes 30 if
\* and only if the performance measure is 'Relative improvement'; it never
\* has another value.
C30_DoExactChangesAtInitialisation ==
    [][/\ solves = 0 => do_exact = DoExactDefault
       /\ do_exact' \in {DoExactDefault, DoExactRelative}
       /\ do_exact' # do_exact =>
              (pc = "cg" /\ pc' = "pricing" /\ pricing_strategy = "Hyper"
                  /\ hyper_heuristic.initialisation /\ ~hyper_heuristic'.initialisation)
       /\ (hyper_heuristic.initialisation /\ ~hyper_heuristic'.initialisation) =>
              (do_exact' = DoExactRelative
                  <=> hyper_heuristic.performance_measure = "Relative improvement")]_vars

C30_Reached ==
    /\ solves = 2 /\ pc = "pricing"
    /\ pricing_strategy = "BestEdges1"
    /\ do_exact = DoExactRelative
    /\ ~hyper_heuristic.initialisation

\* C39 (Spec): a time limit of 0 is no limit: at every point of a solve call
\* with time_limit = 0, _get_time_remaining returns None for mip=False and for
\* mip=True, and the loop is never left through the time-out exit.
C39_ZeroTimeLimitIsNoLimit ==
    time_limit = Some(0) =>
        /\ GetTimeRemaining(time_limit, elapsed, FALSE) = None
        /\ GetTimeRemaining(time_limit, elapsed, TRUE) = None
        /\ exit_taken # "time"

C39_Reached ==
    /\ time_limit = Some(0)
    /\ pc = "after" /\ pass_iterations = 2
    /\ exit_taken = "limit"


\* C36 (SpecAgain): solve does not reset the loop state.  The steps of solve
\* before the loop (the assignment of the solving attributes, _pre_solve,
\* _initialize) leave the iteration counter, the no-improvement counter and
\* the lower-bound history as the call before left them, and the max_iter
\* test after an iteration compares max_iter with the iterations of all the
\* calls made on the object.
C36_LoopStateSurvivesSolve ==
    [][/\ pc \in {"idle", "pre_solve"} =>
              /\ iteration' = iteration
              /\ no_improvement' = no_improvement
              /\ lower_bound' = lower_bound
       /\ (pc = "test" /\ Truthy(max_iter)) =>
              (pc' = "after" <=>
                  (iteration >= Val(max_iter) \/ no_improvement > NoImprovementLimit))]_vars

C36_Reached ==
    /\ solves = 2 /\ pc = "after"
    /\ exit_taken = "limit"
    /\ max_iter = Some(2)
    /\ pass_iterations = 1
    /\ iteration = 3
    /\ Len(lower_bound) = 3


\* C37 (Spec): a pass of _column_generation entered with more_routes true goes
\* into _find_columns before any stopping test: from the head of the loop the
\* next step is the relaxed master solve (which may raise); a stopping test is
\* evaluated only after a _find_columns call that solved the master and priced
\* every vehicle type; and a pass left through the time-out or the limit exit
\* has made at least one iteration, also when the time limit had expired or
\* the iteration counter had reached max_iter before the pass began.
C37_IterationBeforeAnyStoppingTest ==
    [][/\ (pc = "cg" /\ more_routes) => pc' \in {"pricing", "error"}
       /\ (pc' = "test" /\ pc # "test") =>
              /\ pc = "pricing"
              /\ master_call # None
              /\ Len(priced) = vehicle_types
              /\ pass_iterations' = pass_iterations + 1
       /\ pc' = "test" => pass_iterations' >= 1
       /\ (pc' = "after" /\ exit_taken' \in {"time", "limit"}) => pass_iterations' >= 1]_vars

C37_Reached ==
    /\ pc = "test" /\ dive
    /\ pass_iterations = 1
    /\ max_iter = Some(1) /\ iteration = 2
    /\ time_limit = Some(1) /\ elapsed = 1


\* C35 (SpecMaster): the flag read by the while test is the one left by the
\* pricing of the vehicle type priced last.  After every pricing it is false
\* exactly when that pricing ended with an Exact call that found no route,
\* whatever the vehicle types priced before it did; so the loop is left as
\* converged when the last type's Exact pricing finds nothing, also when an
\* earlier type added a column in the same iteration.
C35_FlagIsLastVehicleTypes ==
    /\ Priced => (more_routes <=> ~(ExactAttempted(calls) /\ ~Last(calls).found))
    /\ pc = "test" => (more_routes <=> ~(ExactAttempted(calls) /\ ~Last(calls).found))
    /\ (pc = "after" /\ pass_iterations >= 1 /\ ExactAttempted(calls) /\ ~Last(calls).found)
           => exit_taken \in {"more_routes", "limit"}
    /\ (pc = "after" /\ exit_taken = "more_routes" /\ pass_iterations >= 1)
           => (ExactAttempted(calls) /\ ~Last(calls).found)

C35_Reached ==
    /\ pc = "after" /\ exit_taken = "more_routes"
    /\ vehicle_types = 2
    /\ max_iter = None
    /\ iteration = 1
    /\ columns = InitialRoutes + 1
    /\ calls = << Call("Exact", None, FALSE) >>


\* C38 (SpecMaster): the value returned by move_acceptance is kept in the
\* local update and read by nothing.  Whatever it is, the pricing of a vehicle
\* type adds its column exactly when the flag is set and a column was
\* produced, and the bookkeeping at the end of the iteration gives the loop
\* state that the relaxed objective and the history alone determine; the
\* value itself is gone with the call.
C38_MoveAcceptanceIsNotRead ==
    [][pc = "pricing" =>
          /\ vehicle' = vehicle + 1 =>
                /\ columns' = IF more_routes' /\ produced_column' THEN columns + 1 ELSE columns
                /\ (new_column' # None) <=> (more_routes' /\ produced_column')
                /\ (pool' # pool) => (more_routes' /\ produced_column')
                /\ update' = update
          /\ pc' = "test" =>
                /\ iteration' = iteration + 1
                /\ no_improvement' =
                       IF iteration' > 1 /\ Val(relaxed_cost) = Last(lower_bound)
                       THEN no_improvement + 1 ELSE 0
                /\ lower_bound' = Append(lower_bound, Val(relaxed_cost))
                /\ << columns', pool', more_routes', do_exact' >>
                       = << columns, pool, more_routes, do_exact >>
                /\ update' = None]_vars

C38_Reached ==
    /\ Priced
    /\ pricing_strategy = "Hyper"
    /\ update = Some(FALSE)
    /\ new_column # None
    /\ columns = InitialRoutes + 1


\* C33 (Spec): when the complete preassigned routes lock every customer, so
\* that _lock leaves Source and Sink alone in the graph, a solve call without
\* dive generates no column: the loop is left at its first while test,
\* _find_columns is not called (no iteration, no relaxed master solve, no
\* pricing, no record in the lower-bound history) and no integer solve or
\* extraction is made.
C33_AllLockedGeneratesNothing ==
    (solves = 1 /\ pc # "pre_solve" /\ G.nodes = {"Source", "Sink"} /\ ~dive_arg) =>
        /\ preassignments = AllLocked
        /\ nodes = 2
        /\ pc \in {"cg", "after", "idle"}
        /\ ~more_routes
        /\ pass_iterations = 0 /\ iteration = 0
        /\ master_call = None /\ priced = << >> /\ calls = << >>
        /\ lower_bound = << >>
        /\ columns = InitialRoutes
        /\ mip_solves = 0 /\ extraction = "none" /\ best_value = None
        /\ pc # "cg" => exit_taken \in {"more_routes", "none"}

C33_Reached ==
    /\ pc = "idle" /\ solves = 1
    /\ ~dive_arg
    /\ preassignments = AllLocked
    /\ Cardinality(G.nodes) = 2
    /\ passes = 1
    /\ best_routes = AllLocked


\* The preassigned route is locked in the graph: the interior of a complete
\* route is gone, an incomplete route has its nodes and its edges, at cost 0
\* for every vehicle type.
Locked(route) ==
    IF Complete(route) THEN Interior(route) \cap G.nodes = {}
    ELSE /\ { route[j] : j \in DOMAIN route } \subseteq G.nodes
         /\ \A d \in RouteEdges(route) :
               /\ d \in DOMAIN G.cost
               /\ \A k \in 1 .. vehicle_types : G.cost[d][k] = 0

Fixed(k) == IF fixed_cost = None THEN 0 ELSE fixed_cost[k]

\* The edges of the incomplete preassigned routes.
Zeroed ==
    UNION { RouteEdges(preassignments[i]) :
                i \in { j \in DOMAIN preassignments : ~Complete(preassignments[j]) } }

\* C40 (as stated; SpecGraph): after k solve calls have gone through
\* _pre_solve, every edge of the graph that leaves Source costs, for every
\* vehicle type, its original cost (0 for the edge to Sink that the code
\* adds) plus k times the fixed cost of the type.
C40_FixedCostAddedPerSolve ==
    pc # "pre_solve" =>
        \A d \in DOMAIN G.cost : \A k \in 1 .. vehicle_types :
            d[1] = "Source" =>
                G.cost[d][k] = (IF d \in UserEdges THEN 1 ELSE 0) + solves * Fixed(k)

\* C40 (amended; SpecGraph): after k solve calls have gone through
\* _pre_solve, an edge of the caller's graph that leaves Source, is still in
\* the graph and is not on an incomplete preassigned route costs its original
\* cost plus k times the fixed cost, for every vehicle type; the edge from
\* Source to Sink that the first call adds after its fixed costs costs k - 1
\* times the fixed cost; an edge on an incomplete preassigned route costs 0.
C40_FixedCostAddedPerSolveToUserEdges ==
    (solves >= 1 /\ pc # "pre_solve") =>
        \A d \in DOMAIN G.cost : \A k \in 1 .. vehicle_types :
            d[1] = "Source" =>
                G.cost[d][k] = IF d \in Zeroed THEN 0
                               ELSE IF d \in UserEdges THEN 1 + solves * Fixed(k)
                               ELSE (solves - 1) * Fixed(k)

C40_Reached ==
    /\ solves = 3 /\ pc = "idle"
    /\ vehicle_types = 2
    /\ fixed_cost # None
    /\ preassignments = << << "Source", "a" >> >>
    /\ G.cost[<< "Source", "b" >>] = << 1 + 3 * Fixed(1), 1 + 3 * Fixed(2) >>
    /\ G.cost[<< "Source", "Sink" >>] = << 2 * Fixed(1), 2 * Fixed(2) >>
    /\ G.cost[<< "Source", "a" >>] = << 0, 0 >>


\* The positions of a sequence of positions.
Positions(s) == { s[j] : j \in DOMAIN s }

\* C31 (SpecDistribution): get_heuristic_distribution returns the routes whose
\* value is above 0, once each, and a count per origin; the count of an origin
\* is the number of returned routes that carry its tag after the call, so the
\* counts add up to the number of returned routes; a returned route that had
\* no tag is tagged 'Other' after the call and counted there; no other tag is
\* changed.
C31_CountsAddUpToSelectedRoutes ==
    (pc = "distribution" /\ selection.result # None) =>
        LET res  == Val(selection.result)
            best == Positions(res.best_routes)
        IN  /\ res.best_routes = BestRoutes(selection.y, 1)
            /\ Cardinality(best) = Len(res.best_routes)
            /\ res.counts["BestPaths"] + res.counts["BestEdges1"] + res.counts["BestEdges2"]
                   + res.counts["Exact"] + res.counts["Other"] = Len(res.best_routes)
            /\ \A s \in Origins :
                   res.counts[s] = Cardinality({ i \in best : res.heuristic[i] = Some(s) })
            /\ \A i \in DOMAIN selection.y :
                   res.heuristic[i] =
                       IF i \in best /\ selection.heuristic[i] = None THEN Some("Other")
                       ELSE selection.heuristic[i]

C31_Reached ==
    /\ pc = "distribution" /\ selection.result # None
    /\ selection.y = << Some(10), Some(5) >>
    /\ selection.heuristic = << None, Some("Exact") >>
    /\ Val(selection.result).counts["Other"] = 1
    /\ Val(selection.result).counts["Exact"] = 1
    /\ Val(selection.result).heuristic[1] = Some("Other")


=============================================================================
